---------------------------- MODULE Spec2Model ----------------------------
(***************************************************************************)
(* A model of the DNSPod libdns provider (src/provider.go, src/client.go). *)
(*                                                                         *)
(* Go strings are sequences of one-character strings, so that the string   *)
(* operations of the code (TrimSuffix, HasSuffix, ToUpper, Itoa, ParseInt) *)
(* are computed and not assumed.  A time.Duration is an integer number of  *)
(* milliseconds (TLC integers are 32 bits wide; a second is 1000 units, so *)
(* the truncation of int(d.Seconds()) is kept).                            *)
(***************************************************************************)
EXTENDS Integers, Sequences, FiniteSets, TLC

(***************************************************************************)
(* Package strings and strconv                                             *)
(***************************************************************************)
HasSuffix(s, suffix) ==
    /\ Len(suffix) <= Len(s)
    /\ SubSeq(s, Len(s) - Len(suffix) + 1, Len(s)) = suffix

TrimSuffix(s, suffix) ==
    IF HasSuffix(s, suffix) THEN SubSeq(s, 1, Len(s) - Len(suffix)) ELSE s

Contains(s, ch) == \E i \in 1..Len(s) : s[i] = ch

UpperChar(c) ==
    CASE c = "a" -> "A"
      [] c = "c" -> "C"
      [] c = "e" -> "E"
      [] c = "m" -> "M"
      [] c = "n" -> "N"
      [] c = "s" -> "S"
      [] c = "t" -> "T"
      [] c = "w" -> "W"
      [] c = "x" -> "X"
      [] c = "y" -> "Y"
      [] c = "z" -> "Z"
      [] OTHER   -> c

ToUpper(s) == [i \in 1..Len(s) |-> UpperChar(s[i])]

Digits == <<"0", "1", "2", "3", "4", "5", "6", "7", "8", "9">>

IsDigit(c) == \E d \in 1..10 : Digits[d] = c

DigitVal(c) == (CHOOSE d \in 1..10 : Digits[d] = c) - 1

RECURSIVE NatToStr(_)
NatToStr(n) ==
    IF n < 10 THEN <<Digits[n + 1]>>
    ELSE NatToStr(n \div 10) \o <<Digits[(n % 10) + 1]>>

\* strconv.Itoa
Itoa(n) == IF n < 0 THEN <<"-">> \o NatToStr(0 - n) ELSE NatToStr(n)

RECURSIVE DigitsVal(_)
DigitsVal(s) ==
    IF s = <<>> THEN 0
    ELSE 10 * DigitsVal(SubSeq(s, 1, Len(s) - 1)) + DigitVal(s[Len(s)])

\* strconv.ParseInt(s, 10, 64) and strconv.Atoi(s): an optional sign, then
\* one or more decimal digits; anything else is a syntax error with value 0.
ParseInt(s) ==
    LET signed == s # <<>> /\ s[1] \in {"+", "-"}
        body   == IF signed THEN Tail(s) ELSE s
        ok     == body # <<>> /\ \A i \in 1..Len(body) : IsDigit(body[i])
    IN  IF ~ok THEN [val |-> 0, err |-> TRUE]
        ELSE [val |-> IF signed /\ s[1] = "-" THEN 0 - DigitsVal(body)
                      ELSE DigitsVal(body),
              err |-> FALSE]

(***************************************************************************)
(* Package time: a Duration counts milliseconds.                           *)
(***************************************************************************)
Second == 1000

\* int(d.Seconds()): the float64 number of seconds, truncated toward zero.
WholeSeconds(d) == IF d < 0 THEN 0 - ((0 - d) \div Second) ELSE d \div Second

(***************************************************************************)
(* Package net/netip: an Addr is its canonical text and its family.  The   *)
(* texts ParseAddr accepts are tabulated; every other text is an error.    *)
(***************************************************************************)
IPv4Text   == <<"1", ".", "2", ".", "3", ".", "4">>
IPv6Text   == <<":", ":", "1">>
IPv6Long   == <<"0", ":", ":", "1">>   \* a second spelling of ::1
NotAnIP    == <<"n">>

Addr4 == [text |-> IPv4Text, is6 |-> FALSE]
Addr6 == [text |-> IPv6Text, is6 |-> TRUE]

ParseAddr(s) ==
    CASE s = IPv4Text -> [addr |-> Addr4, err |-> FALSE]
      [] s = IPv6Text -> [addr |-> Addr6, err |-> FALSE]
      [] s = IPv6Long -> [addr |-> Addr6, err |-> FALSE]
      [] OTHER        -> [addr |-> [text |-> <<>>, is6 |-> FALSE], err |-> TRUE]

AddrString(ip) == ip.text

(***************************************************************************)
(* Record name processing                                                  *)
(***************************************************************************)
Dot == <<".">>
At  == <<"@">>

\* extractRecordName without the removal of the zone: the whole name, less
\* its trailing dot.
extractWholeName(name0, zone0) == TrimSuffix(name0, Dot)

extractRecordName(name0, zone0) ==
    LET name == TrimSuffix(name0, Dot)
        zone == TrimSuffix(zone0, Dot)
    IN  IF name = zone THEN At
        ELSE IF HasSuffix(name, Dot \o zone) THEN TrimSuffix(name, Dot \o zone)
        ELSE name

makeAbsoluteName(name, zone0) ==
    LET zone == TrimSuffix(zone0, Dot)
    IN  IF name = At \/ name = <<>> THEN zone \o Dot
        ELSE IF HasSuffix(name, Dot) THEN name
        ELSE name \o Dot \o zone \o Dot

(***************************************************************************)
(* libdns records.  A uniform record is one of the variants Address, TXT,  *)
(* CNAME, MX and RR; RR(r) is its canonical projection.                    *)
(***************************************************************************)
T_A     == <<"A">>
T_AAAA  == <<"A", "A", "A", "A">>
T_TXT   == <<"T", "X", "T">>
T_CNAME == <<"C", "N", "A", "M", "E">>
T_MX    == <<"M", "X">>

RR(r) ==
    CASE r.kind = "Address" ->
            [Name |-> r.Name, TTL |-> r.TTL,
             Type |-> IF r.IP.is6 THEN T_AAAA ELSE T_A,
             Data |-> AddrString(r.IP)]
      [] r.kind = "TXT" ->
            [Name |-> r.Name, TTL |-> r.TTL, Type |-> T_TXT, Data |-> r.Text]
      [] r.kind = "CNAME" ->
            [Name |-> r.Name, TTL |-> r.TTL, Type |-> T_CNAME, Data |-> r.Target]
      [] r.kind = "MX" ->
            [Name |-> r.Name, TTL |-> r.TTL, Type |-> T_MX,
             Data |-> Itoa(r.Preference) \o <<" ">> \o r.Target]
      [] OTHER ->
            [Name |-> r.Name, TTL |-> r.TTL, Type |-> r.Type, Data |-> r.Data]

\* The DNSPod record: the fields the code reads or writes.
ProviderRecord(id, name, type, value, ttl, mx) ==
    [ID |-> id, Name |-> name, Type |-> type, Value |-> value, TTL |-> ttl, MX |-> mx]

\* uint16(preference) of a Go int
Uint16(n) == n % 65536

getRecordType(ip) == IF Contains(AddrString(ip), ":") THEN T_AAAA ELSE T_A

GenericRR(rec, absoluteName, ttlDuration) ==
    [kind |-> "RR", Name |-> absoluteName, Type |-> rec.Type,
     TTL |-> ttlDuration, Data |-> rec.Value]

convertToLibDNSRecord(rec, zone) ==
    LET ttl          == ParseInt(rec.TTL).val
        ttlDuration  == ttl * Second
        absoluteName == makeAbsoluteName(rec.Name, zone)
        upper        == ToUpper(rec.Type)
    IN  CASE upper = T_A \/ upper = T_AAAA ->
                LET p == ParseAddr(rec.Value)
                IN  IF p.err THEN GenericRR(rec, absoluteName, ttlDuration)
                    ELSE [kind |-> "Address", Name |-> absoluteName,
                          IP |-> p.addr, TTL |-> ttlDuration]
          [] upper = T_TXT ->
                [kind |-> "TXT", Name |-> absoluteName, Text |-> rec.Value,
                 TTL |-> ttlDuration]
          [] upper = T_CNAME ->
                [kind |-> "CNAME", Name |-> absoluteName, Target |-> rec.Value,
                 TTL |-> ttlDuration]
          [] upper = T_MX ->
                LET a == ParseInt(rec.MX)
                    preference == IF rec.MX # <<>> /\ ~a.err THEN a.val ELSE 0
                IN  [kind |-> "MX", Name |-> absoluteName, Target |-> rec.Value,
                     Preference |-> Uint16(preference), TTL |-> ttlDuration]
          [] OTHER -> GenericRR(rec, absoluteName, ttlDuration)

\* The conversion with the mail-exchange preference left out.
convertFromNoPreference(libRec, zone) ==
    LET ttl == Itoa(WholeSeconds(libRec.TTL))
        nm  == extractRecordName(libRec.Name, zone)
    IN  CASE libRec.kind = "Address" ->
                ProviderRecord("", nm, getRecordType(libRec.IP),
                               AddrString(libRec.IP), ttl, <<>>)
          [] libRec.kind = "TXT" ->
                ProviderRecord("", nm, T_TXT, libRec.Text, ttl, <<>>)
          [] libRec.kind = "CNAME" ->
                ProviderRecord("", nm, T_CNAME, libRec.Target, ttl, <<>>)
          [] libRec.kind = "MX" ->
                ProviderRecord("", nm, T_MX, libRec.Target, ttl, <<>>)
          [] OTHER ->
                ProviderRecord("", nm, libRec.Type, libRec.Data, ttl, <<>>)

convertFromLibDNSRecord(libRec, zone) ==
    LET ttl == Itoa(WholeSeconds(libRec.TTL))
        nm  == extractRecordName(libRec.Name, zone)
    IN  CASE libRec.kind = "Address" ->
                ProviderRecord("", nm, getRecordType(libRec.IP),
                               AddrString(libRec.IP), ttl, <<>>)
          [] libRec.kind = "TXT" ->
                ProviderRecord("", nm, T_TXT, libRec.Text, ttl, <<>>)
          [] libRec.kind = "CNAME" ->
                ProviderRecord("", nm, T_CNAME, libRec.Target, ttl, <<>>)
          [] libRec.kind = "MX" ->
                ProviderRecord("", nm, T_MX, libRec.Target, ttl,
                               Itoa(libRec.Preference))
          [] OTHER ->
                ProviderRecord("", nm, libRec.Type, libRec.Data, ttl, <<>>)

(***************************************************************************)
(* Bounds of the model                                                     *)
(***************************************************************************)
MaxOps    == 2      \* public operations started in one behaviour
MaxInputs == 2      \* records passed to one AppendRecords/SetRecords/DeleteRecords

Procs == {1, 2}     \* goroutines calling the one Provider object

(***************************************************************************)
(* The provider side: domains, record lists and responses                  *)
(***************************************************************************)
Z_e    == <<"e">>                       \* the zone "e"
Z_eDot == <<"e", ".">>                  \* the same zone, dot-terminated
Z_x    == <<"x">>                       \* a zone the account does not hold

\* Zone arguments that look like a domain of the account without naming it,
\* and the two domains in their dot-terminated form.
Z_eDotDot == <<"e", ".", ".">>
Z_E       == <<"E">>
Z_c       == <<"c">>
Z_ecDot   == <<"e", ".", "c", ".">>

\* The zones a caller names: a lone caller the zone and an unknown one,
\* concurrent callers the zone in its dot-terminated form, a probing caller
\* the look-alikes.
Zones(mode) ==
    CASE mode = "sequential" -> {Z_e, Z_x}
      [] mode = "concurrent" -> {Z_eDot}
      [] OTHER               -> {Z_e, Z_eDot, Z_eDotDot, Z_E, Z_c, Z_ecDot}

N_apex == <<"e", ".">>
N_w    == <<"w", ".", "e", ".">>
TTL600 == <<"6", "0", "0">>

Domain1 == [ID |-> "10", Name |-> <<"e">>]
Domain2 == [ID |-> "20", Name |-> <<"e", ".", "c">>]

\* The account's domain list can grow while clients live.
DomainLists == <<  <<>>, <<Domain1>>, <<Domain1, Domain2>>  >>

E1 == ProviderRecord("1", <<"w">>, T_TXT, <<"x">>, TTL600, <<>>)
E2 == ProviderRecord("2", <<"w">>, T_TXT, <<"y">>, TTL600, <<>>)
E3 == ProviderRecord("3", At, T_A, IPv4Text, TTL600, <<>>)

\* A second record with the name, type and value of E1, its ttl field empty,
\* and an A record whose value is not an IP literal.
E4 == ProviderRecord("4", <<"w">>, T_TXT, <<"x">>, <<>>, <<>>)
E5 == ProviderRecord("5", <<"w">>, T_A, NotAnIP, TTL600, <<>>)

\* Payloads of a Record.List response.
RecordLists(mode) ==
    CASE mode = "sequential" -> { <<>>, <<E1, E2>>, <<E2, E1, E3>> }
      [] mode = "concurrent" -> { <<E1, E3>> }
      [] OTHER               -> { <<E2, E4, E5, E1>> }

U_txX  == [kind |-> "TXT", Name |-> N_w, Text |-> <<"x">>, TTL |-> 600 * Second]
U_txZ  == [kind |-> "TXT", Name |-> N_w, Text |-> <<"z">>, TTL |-> 0]
U_addr == [kind |-> "Address", Name |-> N_apex, IP |-> Addr4, TTL |-> 600 * Second]
U_mx   == [kind |-> "MX", Name |-> N_w, Target |-> <<"m">>, Preference |-> 10,
           TTL |-> 600 * Second]

\* The text record of U_txX with no TTL, and with its text in upper case.
U_txX0 == [kind |-> "TXT", Name |-> N_w, Text |-> <<"x">>, TTL |-> 0]
U_txUp == [kind |-> "TXT", Name |-> N_w, Text |-> <<"X">>, TTL |-> 600 * Second]

\* Records a caller passes: a lone caller draws up to MaxInputs records from
\* the larger pool, concurrent callers pass one record, a probing caller
\* draws up to MaxInputs records that differ from an existing one in little.
InputPool(mode) ==
    CASE mode = "sequential" -> {U_txX, U_txZ, U_mx}
      [] mode = "concurrent" -> {U_addr}
      [] OTHER               -> {U_txX, U_txX0, U_txUp}

InputLen(mode) == IF mode = "concurrent" THEN 1 ELSE MaxInputs

RECURSIVE SeqsUpTo(_, _)
SeqsUpTo(S, n) ==
    IF n = 0 THEN {<<>>}
    ELSE LET shorter == SeqsUpTo(S, n - 1)
         IN  shorter \cup {Append(q, x) : q \in {t \in shorter : Len(t) = n - 1}, x \in S}

successCode == "1"

\* What the HTTP round trip can yield: a network failure, or a status with
\* a body that is JSON or not, whose envelope carries a code and a message
\* and whose endpoint-specific payload decodes or not.
Response(neterr, status, json, code, message, payloadOK) ==
    [neterr |-> neterr, status |-> status, json |-> json, code |-> code,
     message |-> message, payloadOK |-> payloadOK]

R_ok      == Response(FALSE, 200, TRUE, "1", "ok", TRUE)
R_api     == Response(FALSE, 200, TRUE, "-1", "denied", TRUE)
R_net     == Response(TRUE, 0, FALSE, "", "", FALSE)

\* The responses a lone caller can meet; the others meet two.
Responses(mode) ==
    IF mode = "sequential"
    THEN { R_ok, R_api, R_net,
           Response(FALSE, 200, TRUE, "1", "ok", FALSE),
           Response(FALSE, 200, FALSE, "1", "ok", TRUE),
           Response(FALSE, 204, TRUE, "1", "ok", TRUE),
           Response(FALSE, 500, TRUE, "-1", "denied", TRUE) }
    ELSE { R_ok, R_api }

NoResponse == Response(FALSE, 0, FALSE, "", "none", FALSE)

(***************************************************************************)
(* Errors                                                                  *)
(***************************************************************************)
Err(kind, code, message) == [kind |-> kind, code |-> code, message |-> message]
Nil == Err("nil", "", "")

\* makeRequest without the test of the envelope's status code.
makeRequestAnyCode(resp) ==
    IF resp.neterr THEN Err("request", "", "")
    ELSE IF resp.status # 200 THEN Err("HTTP", "", "")
    ELSE IF ~resp.json THEN Err("parse", "", "")
    ELSE Nil

\* makeRequest with every 2xx status let through to the envelope.
makeRequestAny2xx(resp) ==
    IF resp.neterr THEN Err("request", "", "")
    ELSE IF resp.status \notin 200..299 THEN Err("HTTP", "", "")
    ELSE IF ~resp.json THEN Err("parse", "", "")
    ELSE IF resp.code # successCode THEN Err("API", resp.code, resp.message)
    ELSE Nil

\* makeRequest, from the response on: the error it returns (Nil: the body).
makeRequest(resp) ==
    IF resp.neterr THEN Err("request", "", "")
    ELSE IF resp.status # 200 THEN Err("HTTP", "", "")
    ELSE IF ~resp.json THEN Err("parse", "", "")
    ELSE IF resp.code # successCode THEN Err("API", resp.code, resp.message)
    ELSE Nil

\* json.Unmarshal of the body into the endpoint's response structure.
decodePayload(resp) == IF resp.payloadOK THEN Nil ELSE Err("decode", "", "")

\* The error of a whole client call, given the response to its request.
callError(resp) ==
    IF makeRequest(resp) # Nil THEN makeRequest(resp) ELSE decodePayload(resp)

(***************************************************************************)
(* State                                                                   *)
(***************************************************************************)
VARIABLES
    callers,        \* the goroutines that call the provider (fixed by Init)
    providerClient, \* Provider.client: 0 is nil, else the Client's identity
    domainList,     \* Client.domainList of every Client
    readers,        \* Client.mutex: the holders of the read lock
    writer,         \* Client.mutex: the holder of the write lock, or 0
    remoteDomains,  \* index in DomainLists of the account's domains
    pc,             \* where each goroutine stands
    op,             \* the public operation each goroutine runs
    issued,         \* the provider calls the running operation has issued
    dlCalls,        \* per Client: Domain.List calls issued
    dlOK,           \* per Client: Domain.List calls that succeeded
    nOps,           \* operations started
    conv            \* the translator's input and output (SpecConv)

vars == <<callers, providerClient, domainList, readers, writer, remoteDomains,
          pc, op, issued, dlCalls, dlOK, nOps, conv>>

Alone == Cardinality(callers) = 1

\* Which inputs the callers draw: those of concurrent callers, of the one
\* caller that runs batches, or of the one caller that probes.
Mode ==
    IF ~Alone THEN "concurrent"
    ELSE IF callers = {1} THEN "sequential" ELSE "probe"

IdleOp ==
    [kind |-> "none", zone |-> <<>>, records |-> <<>>, client |-> 0,
     cancelled |-> FALSE, domainID |-> "", existing |-> <<>>, idx |-> 1,
     results |-> <<>>, err |-> Nil]

InitMachine ==
    /\ providerClient = 0
    /\ domainList = [c \in Procs |-> <<>>]
    /\ readers = [c \in Procs |-> {}]
    /\ writer = [c \in Procs |-> 0]
    /\ remoteDomains \in {1, 2}
    /\ pc = [p \in Procs |-> "idle"]
    /\ op = [p \in Procs |-> IdleOp]
    /\ issued = [p \in Procs |-> <<>>]
    /\ dlCalls = [c \in Procs |-> 0]
    /\ dlOK = [c \in Procs |-> 0]
    /\ nOps = 0

NoConv == [phase |-> "off"]

\* Concurrent callers of one Provider object.
Init == callers = Procs /\ InitMachine /\ conv = NoConv

\* One caller, its operations one after another.
InitSeq == callers = {1} /\ InitMachine /\ conv = NoConv

\* One caller, probing with look-alike zones and records.
InitProbe == callers = {2} /\ InitMachine /\ conv = NoConv

(***************************************************************************)
(* Provider.getClient (no lock guards Provider.client: the check, the      *)
(* store and the final load are separate steps)                            *)
(***************************************************************************)
Kinds == {"Get", "Append", "Set", "Delete"}

Start(p) ==
    /\ p \in callers
    /\ pc[p] = "idle"
    /\ nOps < MaxOps
    /\ \E kind \in Kinds, zone \in Zones(Mode),
          records \in SeqsUpTo(InputPool(Mode), InputLen(Mode)) :
          /\ (kind = "Get") = (records = <<>>)
          /\ op' = [op EXCEPT ![p] = [IdleOp EXCEPT !.kind = kind, !.zone = zone,
                                                    !.records = records]]
    /\ pc' = [pc EXCEPT ![p] = "getClient"]
    /\ issued' = [issued EXCEPT ![p] = <<>>]
    /\ nOps' = nOps + 1
    /\ UNCHANGED <<callers, providerClient, domainList, readers, writer,
                   remoteDomains, dlCalls, dlOK, conv>>

GetClientCheck(p) ==
    /\ pc[p] = "getClient"
    /\ IF providerClient = 0
       THEN /\ pc' = [pc EXCEPT ![p] = "newClient"]
            /\ op' = op
       ELSE /\ pc' = [pc EXCEPT ![p] = "rlock"]
            /\ op' = [op EXCEPT ![p].client = providerClient]
    /\ UNCHANGED <<callers, providerClient, domainList, readers, writer,
                   remoteDomains, issued, dlCalls, dlOK, nOps, conv>>

\* newClient: a fresh Client (empty cache, free mutex), named after its maker.
GetClientStore(p) ==
    /\ pc[p] = "newClient"
    /\ providerClient' = p
    /\ pc' = [pc EXCEPT ![p] = "retClient"]
    /\ UNCHANGED <<callers, domainList, readers, writer, remoteDomains, op,
                   issued, dlCalls, dlOK, nOps, conv>>

GetClientReturn(p) ==
    /\ pc[p] = "retClient"
    /\ op' = [op EXCEPT ![p].client = providerClient]
    /\ pc' = [pc EXCEPT ![p] = "rlock"]
    /\ UNCHANGED <<callers, providerClient, domainList, readers, writer,
                   remoteDomains, issued, dlCalls, dlOK, nOps, conv>>

(***************************************************************************)
(* Client.getDomains and Client.getDomainID                                *)
(***************************************************************************)
\* A request built without the caller's context is sent whatever happens.
ctxIgnored(p) == FALSE

\* http.Client.Do with a context that is done: the request fails without
\* being sent.
ctxDone(p) == op[p].cancelled

\* What one provider call looks like on the wire (the parameters that vary).
Call(ep, idx, recordID, rec, ttl) ==
    [ep |-> ep, idx |-> idx, record_id |-> recordID, sub_domain |-> rec.Name,
     record_type |-> rec.Type, value |-> rec.Value, ttl |-> ttl, mx |-> rec.MX,
     resp |-> NoResponse, ret |-> ProviderRecord("", <<>>, <<>>, <<>>, <<>>, <<>>)]

NoRec == ProviderRecord("", <<>>, <<>>, <<>>, <<>>, <<>>)

\* The cache test of getDomains: len(c.domainList) > 0
cacheFilled(c) == Len(domainList[c]) > 0

\* getDomainID with a domain matching when its name ends in the zone's.
getDomainIDSuffix(domains, domainName0) ==
    LET domainName == TrimSuffix(domainName0, Dot)
        hits == {i \in 1..Len(domains) : HasSuffix(domains[i].Name, domainName)}
    IN  IF hits = {} THEN [id |-> "", err |-> Err("DomainNotFound", "", "")]
        ELSE [id |-> domains[CHOOSE i \in hits : \A j \in hits : i <= j].ID,
              err |-> Nil]

\* The search loop of getDomainID over the copy getDomains returned.
getDomainID(domains, domainName0) ==
    LET domainName == TrimSuffix(domainName0, Dot)
        hits == {i \in 1..Len(domains) : domains[i].Name = domainName}
    IN  IF hits = {} THEN [id |-> "", err |-> Err("DomainNotFound", "", "")]
        ELSE [id |-> domains[CHOOSE i \in hits : \A j \in hits : i <= j].ID,
              err |-> Nil]

\* The operation's state once getDomains has returned `domains`.
Resolved(o, domains) ==
    LET r == getDomainID(domains, o.zone)
    IN  IF r.err # Nil THEN [o EXCEPT !.err = r.err]
        ELSE [o EXCEPT !.domainID = r.id]

\* After the resolve every operation goes straight to its loop: no fetch.
AfterResolveNoList(o) ==
    IF o.err # Nil THEN "done" ELSE "loop"

AfterResolve(o) ==
    IF o.err # Nil THEN "done"
    ELSE IF o.kind = "Append" THEN "loop" ELSE "list"

RLock(p) ==
    /\ pc[p] = "rlock"
    /\ writer[op[p].client] = 0
    /\ readers' = [readers EXCEPT ![op[p].client] = @ \cup {p}]
    /\ pc' = [pc EXCEPT ![p] = "rcheck"]
    /\ UNCHANGED <<callers, providerClient, domainList, writer, remoteDomains,
                   op, issued, dlCalls, dlOK, nOps, conv>>

\* The test under the read lock, and RUnlock on both of its branches.
RCheck(p) ==
    LET c == op[p].client
    IN  /\ pc[p] = "rcheck"
        /\ readers' = [readers EXCEPT ![c] = @ \ {p}]
        /\ IF cacheFilled(c)
           THEN /\ op' = [op EXCEPT ![p] = Resolved(op[p], domainList[c])]
                /\ pc' = [pc EXCEPT ![p] = AfterResolve(op'[p])]
           ELSE /\ op' = op
                /\ pc' = [pc EXCEPT ![p] = "wlock"]
        /\ UNCHANGED <<callers, providerClient, domainList, writer,
                       remoteDomains, issued, dlCalls, dlOK, nOps, conv>>

WLock(p) ==
    /\ pc[p] = "wlock"
    /\ writer[op[p].client] = 0
    /\ readers[op[p].client] = {}
    /\ writer' = [writer EXCEPT ![op[p].client] = p]
    /\ pc' = [pc EXCEPT ![p] = "wcheck"]
    /\ UNCHANGED <<callers, providerClient, domainList, readers, remoteDomains,
                   op, issued, dlCalls, dlOK, nOps, conv>>

\* getDomains without the second test: Domain.List is requested as soon as
\* the write lock is held.
WCheckNoRecheck(p) ==
    LET c == op[p].client
    IN  /\ pc[p] = "wcheck"
        /\ IF ctxDone(p)
           THEN /\ op' = [op EXCEPT ![p].err = Err("request", "", "")]
                /\ pc' = [pc EXCEPT ![p] = "done"]
                /\ writer' = [writer EXCEPT ![c] = 0]
                /\ UNCHANGED <<issued, dlCalls>>
           ELSE /\ issued' = [issued EXCEPT ![p] =
                                 Append(@, Call("Domain.List", 0, "", NoRec, <<>>))]
                /\ dlCalls' = [dlCalls EXCEPT ![c] = @ + 1]
                /\ pc' = [pc EXCEPT ![p] = "dlwait"]
                /\ UNCHANGED <<op, writer>>
        /\ UNCHANGED <<callers, providerClient, domainList, readers,
                       remoteDomains, dlOK, nOps, conv>>

\* The second test, under the write lock; on a miss Domain.List is requested.
\* The deferred Unlock runs on every return.
WCheck(p) ==
    LET c == op[p].client
    IN  /\ pc[p] = "wcheck"
        /\ IF cacheFilled(c)
           THEN /\ op' = [op EXCEPT ![p] = Resolved(op[p], domainList[c])]
                /\ pc' = [pc EXCEPT ![p] = AfterResolve(op'[p])]
                /\ writer' = [writer EXCEPT ![c] = 0]
                /\ UNCHANGED <<issued, dlCalls>>
           ELSE IF ctxDone(p)
           THEN /\ op' = [op EXCEPT ![p].err = Err("request", "", "")]
                /\ pc' = [pc EXCEPT ![p] = "done"]
                /\ writer' = [writer EXCEPT ![c] = 0]
                /\ UNCHANGED <<issued, dlCalls>>
           ELSE /\ issued' = [issued EXCEPT ![p] =
                                 Append(@, Call("Domain.List", 0, "", NoRec, <<>>))]
                /\ dlCalls' = [dlCalls EXCEPT ![c] = @ + 1]
                /\ pc' = [pc EXCEPT ![p] = "dlwait"]
                /\ UNCHANGED <<op, writer>>
        /\ UNCHANGED <<callers, providerClient, domainList, readers,
                       remoteDomains, dlOK, nOps, conv>>

\* The log once the last call has got the response `resp`, which carried the
\* record `ret`.
Answered(log, resp, ret) ==
    [log EXCEPT ![Len(log)].resp = resp, ![Len(log)].ret = ret]

\* getDomains with the Unlock at the end of the function instead of deferred:
\* the returns on an error leave the write lock held.
DomainListReturnKeepsLock(p) ==
    LET c == op[p].client
    IN  /\ pc[p] = "dlwait"
        /\ \E resp \in Responses(Mode) :
              LET e == callError(resp)
              IN  IF e # Nil
                  THEN /\ op' = [op EXCEPT ![p].err = e]
                       /\ pc' = [pc EXCEPT ![p] = "done"]
                       /\ issued' = [issued EXCEPT ![p] = Answered(@, resp, NoRec)]
                       /\ UNCHANGED <<domainList, dlOK, writer>>
                  ELSE /\ domainList' = [domainList EXCEPT ![c] =
                                            DomainLists[remoteDomains]]
                       /\ dlOK' = [dlOK EXCEPT ![c] = @ + 1]
                       /\ issued' = [issued EXCEPT ![p] = Answered(@, resp, NoRec)]
                       /\ op' = [op EXCEPT ![p] =
                                    Resolved(op[p], DomainLists[remoteDomains])]
                       /\ pc' = [pc EXCEPT ![p] = AfterResolve(op'[p])]
                       /\ writer' = [writer EXCEPT ![c] = 0]
        /\ UNCHANGED <<callers, providerClient, readers, remoteDomains,
                       dlCalls, nOps, conv>>

\* getDomains storing what the provider holds before it looks at the error.
DomainListReturnStoresFirst(p) ==
    LET c == op[p].client
    IN  /\ pc[p] = "dlwait"
        /\ \E resp \in Responses(Mode) :
              LET e == callError(resp)
              IN  /\ domainList' = [domainList EXCEPT ![c] = DomainLists[remoteDomains]]
                  /\ issued' = [issued EXCEPT ![p] = Answered(@, resp, NoRec)]
                  /\ IF e # Nil
                     THEN /\ op' = [op EXCEPT ![p].err = e]
                          /\ pc' = [pc EXCEPT ![p] = "done"]
                          /\ UNCHANGED dlOK
                     ELSE /\ dlOK' = [dlOK EXCEPT ![c] = @ + 1]
                          /\ op' = [op EXCEPT ![p] =
                                       Resolved(op[p], DomainLists[remoteDomains])]
                          /\ pc' = [pc EXCEPT ![p] = AfterResolve(op'[p])]
        /\ writer' = [writer EXCEPT ![c] = 0]
        /\ UNCHANGED <<callers, providerClient, readers, remoteDomains,
                       dlCalls, nOps, conv>>

\* The response to Domain.List: on success the cache takes the account's
\* domains as they are now.
DomainListReturn(p) ==
    LET c == op[p].client
    IN  /\ pc[p] = "dlwait"
        /\ \E resp \in Responses(Mode) :
              LET e == callError(resp)
              IN  IF e # Nil
                  THEN /\ op' = [op EXCEPT ![p].err = e]
                       /\ pc' = [pc EXCEPT ![p] = "done"]
                       /\ issued' = [issued EXCEPT ![p] = Answered(@, resp, NoRec)]
                       /\ UNCHANGED <<domainList, dlOK>>
                  ELSE /\ domainList' = [domainList EXCEPT ![c] =
                                            DomainLists[remoteDomains]]
                       /\ dlOK' = [dlOK EXCEPT ![c] = @ + 1]
                       /\ issued' = [issued EXCEPT ![p] = Answered(@, resp, NoRec)]
                       /\ op' = [op EXCEPT ![p] =
                                    Resolved(op[p], DomainLists[remoteDomains])]
                       /\ pc' = [pc EXCEPT ![p] = AfterResolve(op'[p])]
        /\ writer' = [writer EXCEPT ![c] = 0]
        /\ UNCHANGED <<callers, providerClient, readers, remoteDomains,
                       dlCalls, nOps, conv>>

\* A domain is added to the account on the provider's side.
AddDomain ==
    /\ remoteDomains < Len(DomainLists)
    /\ remoteDomains' = remoteDomains + 1
    /\ UNCHANGED <<callers, providerClient, domainList, readers, writer, pc,
                   op, issued, dlCalls, dlOK, nOps, conv>>

\* The caller's context is cancelled while its operation runs.
Cancel(p) ==
    /\ pc[p] \notin {"idle", "done"}
    /\ ~op[p].cancelled
    /\ op' = [op EXCEPT ![p].cancelled = TRUE]
    /\ UNCHANGED <<callers, providerClient, domainList, readers, writer,
                   remoteDomains, pc, issued, dlCalls, dlOK, nOps, conv>>

(***************************************************************************)
(* Client.listRecords and the public operations                            *)
(***************************************************************************)
SendRecordList(p) ==
    /\ pc[p] = "list"
    /\ IF ctxDone(p)
       THEN /\ op' = [op EXCEPT ![p].err = Err("request", "", "")]
            /\ pc' = [pc EXCEPT ![p] = "done"]
            /\ UNCHANGED issued
       ELSE /\ issued' = [issued EXCEPT ![p] =
                             Append(@, Call("Record.List", 0, "", NoRec, <<>>))]
            /\ pc' = [pc EXCEPT ![p] = "rlwait"]
            /\ UNCHANGED op
    /\ UNCHANGED <<callers, providerClient, domainList, readers, writer,
                   remoteDomains, dlCalls, dlOK, nOps, conv>>

\* GetRecords leaving out the records the translator has no typed form for.
translateTyped(records, zone) ==
    SelectSeq([i \in 1..Len(records) |-> convertToLibDNSRecord(records[i], zone)],
              LAMBDA r : r.kind # "RR")

\* GetRecords: one uniform record per record of the response, in its order.
translateAll(records, zone) ==
    [i \in 1..Len(records) |-> convertToLibDNSRecord(records[i], zone)]

RecordListReturn(p) ==
    /\ pc[p] = "rlwait"
    /\ \E resp \in Responses(Mode) :
          LET e == callError(resp)
          IN  IF e # Nil
              THEN /\ op' = [op EXCEPT ![p].err = e]
                   /\ pc' = [pc EXCEPT ![p] = "done"]
                   /\ issued' = [issued EXCEPT ![p] = Answered(@, resp, NoRec)]
              ELSE \E payload \in RecordLists(Mode) :
                   /\ issued' = [issued EXCEPT ![p] = Answered(@, resp, NoRec)]
                   /\ IF op[p].kind = "Get"
                      THEN /\ op' = [op EXCEPT ![p].existing = payload,
                                       ![p].results = translateAll(payload, op[p].zone)]
                           /\ pc' = [pc EXCEPT ![p] = "done"]
                      ELSE /\ op' = [op EXCEPT ![p].existing = payload]
                           /\ pc' = [pc EXCEPT ![p] = "loop"]
    /\ UNCHANGED <<callers, providerClient, domainList, readers, writer,
                   remoteDomains, dlCalls, dlOK, nOps, conv>>

First(S) == CHOOSE i \in S : \A j \in S : i <= j

\* The match of SetRecords with the type left out of the comparison.
findByName(existing, zone, rr) ==
    LET hits == {i \in 1..Len(existing) :
                    RR(convertToLibDNSRecord(existing[i], zone)).Name = rr.Name}
    IN  IF hits = {} THEN "" ELSE existing[First(hits)].ID

\* The match of SetRecords without the break: the last match wins.
findLastByNameType(existing, zone, rr) ==
    LET hits == {i \in 1..Len(existing) :
                    LET e == RR(convertToLibDNSRecord(existing[i], zone))
                    IN  e.Name = rr.Name /\ e.Type = rr.Type}
    IN  IF hits = {} THEN ""
        ELSE existing[CHOOSE i \in hits : \A j \in hits : j <= i].ID

\* The match of DeleteRecords with the data left out of the comparison.
findIgnoringData(existing, zone, rr) ==
    LET hits == {i \in 1..Len(existing) :
                    LET e == RR(convertToLibDNSRecord(existing[i], zone))
                    IN  e.Name = rr.Name /\ e.Type = rr.Type}
    IN  IF hits = {} THEN "" ELSE existing[First(hits)].ID

\* The match of DeleteRecords without the break: the last match wins.
findLastByNameTypeData(existing, zone, rr) ==
    LET hits == {i \in 1..Len(existing) :
                    LET e == RR(convertToLibDNSRecord(existing[i], zone))
                    IN  e.Name = rr.Name /\ e.Type = rr.Type /\ e.Data = rr.Data}
    IN  IF hits = {} THEN ""
        ELSE existing[CHOOSE i \in hits : \A j \in hits : j <= i].ID

\* SetRecords: the id of the first existing record with the input's name and
\* type, "" when there is none.
findByNameType(existing, zone, rr) ==
    LET hits == {i \in 1..Len(existing) :
                    LET e == RR(convertToLibDNSRecord(existing[i], zone))
                    IN  e.Name = rr.Name /\ e.Type = rr.Type}
    IN  IF hits = {} THEN "" ELSE existing[First(hits)].ID

\* DeleteRecords: the id of the first existing record with the input's name,
\* type and data, "" when there is none.
findByNameTypeData(existing, zone, rr) ==
    LET hits == {i \in 1..Len(existing) :
                    LET e == RR(convertToLibDNSRecord(existing[i], zone))
                    IN  e.Name = rr.Name /\ e.Type = rr.Type /\ e.Data = rr.Data}
    IN  IF hits = {} THEN "" ELSE existing[First(hits)].ID

\* createRecord's ttl parameter
createTTL(rec) == IF rec.TTL # <<>> THEN rec.TTL ELSE TTL600

\* The call the loop body makes for the input at idx, or the error that ends
\* the loop before any call.
loopCall(o) ==
    LET libRec == o.records[o.idx]
        rr     == RR(libRec)
        rec    == convertFromLibDNSRecord(libRec, o.zone)
        create == [err |-> Nil,
                   call |-> Call("Record.Create", o.idx, "", rec, createTTL(rec))]
    IN  CASE o.kind = "Append" -> create
          [] o.kind = "Set" ->
                LET recordID == findByNameType(o.existing, o.zone, rr)
                IN  IF recordID # ""
                    THEN [err |-> Nil,
                          call |-> Call("Record.Modify", o.idx, recordID, rec, rec.TTL)]
                    ELSE create
          [] OTHER ->
                LET recordID == findByNameTypeData(o.existing, o.zone, rr)
                IN  IF recordID = ""
                    THEN [err |-> Err("RecordNotFound", "", ""),
                          call |-> Call("none", o.idx, "", NoRec, <<>>)]
                    ELSE [err |-> Nil,
                          call |-> Call("Record.Remove", o.idx, recordID, NoRec, <<>>)]

LoopStep(p) ==
    /\ pc[p] = "loop"
    /\ IF op[p].idx > Len(op[p].records)
       THEN /\ pc' = [pc EXCEPT ![p] = "done"]
            /\ UNCHANGED <<op, issued>>
       ELSE LET c == loopCall(op[p])
            IN  IF c.err # Nil
                THEN /\ op' = [op EXCEPT ![p].err = c.err]
                     /\ pc' = [pc EXCEPT ![p] = "done"]
                     /\ UNCHANGED issued
                ELSE IF ctxDone(p)
                THEN /\ op' = [op EXCEPT ![p].err = Err("request", "", "")]
                     /\ pc' = [pc EXCEPT ![p] = "done"]
                     /\ UNCHANGED issued
                ELSE /\ issued' = [issued EXCEPT ![p] = Append(@, c.call)]
                     /\ pc' = [pc EXCEPT ![p] = "mwait"]
                     /\ UNCHANGED op
    /\ UNCHANGED <<callers, providerClient, domainList, readers, writer,
                   remoteDomains, dlCalls, dlOK, nOps, conv>>

\* The record a Record.Create or Record.Modify response carries: the record
\* as stored (every field), or the provider's short form (id and name).
ReturnedRecords(call, mode) ==
    LET id == IF call.record_id # "" THEN call.record_id ELSE "9"
        full == ProviderRecord(id, call.sub_domain, call.record_type,
                               call.value, call.ttl, call.mx)
    IN  IF mode = "sequential"
        THEN {full, ProviderRecord(id, call.sub_domain, <<>>, <<>>, <<>>, <<>>)}
        ELSE {full}

\* deleteRecord drops the body; createRecord and updateRecord decode it.
mutateError(call, resp) ==
    IF call.ep = "Record.Remove" THEN makeRequest(resp) ELSE callError(resp)

\* What the loop appends for the input it has just dealt with.
loopResult(o, ret) ==
    IF o.kind = "Delete" THEN o.records[o.idx]
    ELSE convertToLibDNSRecord(ret, o.zone)

\* The loop without the return on a failed call: it goes on to the next input.
MutateReturnGoesOn(p) ==
    LET call == issued[p][Len(issued[p])]
    IN  /\ pc[p] = "mwait"
        /\ \E resp \in Responses(Mode) :
              LET e == mutateError(call, resp)
              IN  IF e # Nil
                  THEN /\ op' = [op EXCEPT ![p].idx = @ + 1]
                       /\ pc' = [pc EXCEPT ![p] = "loop"]
                       /\ issued' = [issued EXCEPT ![p] = Answered(@, resp, NoRec)]
                  ELSE \E ret \in (IF call.ep = "Record.Remove" THEN {NoRec}
                                   ELSE ReturnedRecords(call, Mode)) :
                       /\ issued' = [issued EXCEPT ![p] = Answered(@, resp, ret)]
                       /\ op' = [op EXCEPT ![p].results = Append(@, loopResult(op[p], ret)),
                                           ![p].idx = @ + 1]
                       /\ pc' = [pc EXCEPT ![p] = "loop"]
        /\ UNCHANGED <<callers, providerClient, domainList, readers, writer,
                       remoteDomains, dlCalls, dlOK, nOps, conv>>

\* The loop with the fetched list kept up to date: a removed record leaves
\* it, a created record joins it.
MutateReturnRefreshes(p) ==
    LET call == issued[p][Len(issued[p])]
        refreshed(ret) ==
            CASE call.ep = "Record.Remove" ->
                    SelectSeq(op[p].existing, LAMBDA e : e.ID # call.record_id)
              [] call.ep = "Record.Create" -> Append(op[p].existing, ret)
              [] OTHER -> op[p].existing
    IN  /\ pc[p] = "mwait"
        /\ \E resp \in Responses(Mode) :
              LET e == mutateError(call, resp)
              IN  IF e # Nil
                  THEN /\ op' = [op EXCEPT ![p].err = e]
                       /\ pc' = [pc EXCEPT ![p] = "done"]
                       /\ issued' = [issued EXCEPT ![p] = Answered(@, resp, NoRec)]
                  ELSE \E ret \in (IF call.ep = "Record.Remove" THEN {NoRec}
                                   ELSE ReturnedRecords(call, Mode)) :
                       /\ issued' = [issued EXCEPT ![p] = Answered(@, resp, ret)]
                       /\ op' = [op EXCEPT ![p].results = Append(@, loopResult(op[p], ret)),
                                           ![p].idx = @ + 1,
                                           ![p].existing = refreshed(ret)]
                       /\ pc' = [pc EXCEPT ![p] = "loop"]
        /\ UNCHANGED <<callers, providerClient, domainList, readers, writer,
                       remoteDomains, dlCalls, dlOK, nOps, conv>>

MutateReturn(p) ==
    LET call == issued[p][Len(issued[p])]
    IN  /\ pc[p] = "mwait"
        /\ \E resp \in Responses(Mode) :
              LET e == mutateError(call, resp)
              IN  IF e # Nil
                  THEN /\ op' = [op EXCEPT ![p].err = e]
                       /\ pc' = [pc EXCEPT ![p] = "done"]
                       /\ issued' = [issued EXCEPT ![p] = Answered(@, resp, NoRec)]
                  ELSE \E ret \in (IF call.ep = "Record.Remove" THEN {NoRec}
                                   ELSE ReturnedRecords(call, Mode)) :
                       /\ issued' = [issued EXCEPT ![p] = Answered(@, resp, ret)]
                       /\ op' = [op EXCEPT ![p].results = Append(@, loopResult(op[p], ret)),
                                           ![p].idx = @ + 1]
                       /\ pc' = [pc EXCEPT ![p] = "loop"]
        /\ UNCHANGED <<callers, providerClient, domainList, readers, writer,
                       remoteDomains, dlCalls, dlOK, nOps, conv>>

\* The operation has returned (results, err) to its caller.
Finish(p) ==
    /\ pc[p] = "done"
    /\ pc' = [pc EXCEPT ![p] = "idle"]
    /\ op' = [op EXCEPT ![p] = IdleOp]
    /\ issued' = [issued EXCEPT ![p] = <<>>]
    /\ UNCHANGED <<callers, providerClient, domainList, readers, writer,
                   remoteDomains, dlCalls, dlOK, nOps, conv>>

Next ==
    \/ \E p \in Procs : Start(p)
    \/ \E p \in Procs : GetClientCheck(p)
    \/ \E p \in Procs : GetClientStore(p)
    \/ \E p \in Procs : GetClientReturn(p)
    \/ \E p \in Procs : RLock(p)
    \/ \E p \in Procs : RCheck(p)
    \/ \E p \in Procs : WLock(p)
    \/ \E p \in Procs : WCheck(p)
    \/ \E p \in Procs : DomainListReturn(p)
    \/ \E p \in Procs : SendRecordList(p)
    \/ \E p \in Procs : RecordListReturn(p)
    \/ \E p \in Procs : LoopStep(p)
    \/ \E p \in Procs : MutateReturn(p)
    \/ \E p \in Procs : Finish(p)
    \/ \E p \in Procs : Cancel(p)
    \/ AddDomain

Spec == Init /\ [][Next]_vars

SpecSeq == InitSeq /\ [][Next]_vars

SpecProbe == InitProbe /\ [][Next]_vars

\* The steps of getDomains are taken when they can be: a goroutine that can
\* take a lock takes it, a goroutine that holds one goes on, and every
\* Domain.List call returns (the HTTP client has a timeout).
Fairness ==
    \A p \in Procs :
        /\ WF_vars(RLock(p))
        /\ WF_vars(RCheck(p))
        /\ WF_vars(WLock(p))
        /\ WF_vars(WCheck(p))
        /\ WF_vars(DomainListReturn(p))

\* A caller enters GetRecords.
StartGet(p) == Start(p) /\ op'[p].kind = "Get"

\* The steps of concurrent GetRecords calls: every step of getClient and of
\* getDomains, and the Record.List call that follows a resolve.
NextFair ==
    \/ \E p \in Procs : StartGet(p)
    \/ \E p \in Procs : GetClientCheck(p)
    \/ \E p \in Procs : GetClientStore(p)
    \/ \E p \in Procs : GetClientReturn(p)
    \/ \E p \in Procs : RLock(p)
    \/ \E p \in Procs : RCheck(p)
    \/ \E p \in Procs : WLock(p)
    \/ \E p \in Procs : WCheck(p)
    \/ \E p \in Procs : DomainListReturn(p)
    \/ \E p \in Procs : SendRecordList(p)
    \/ \E p \in Procs : RecordListReturn(p)
    \/ \E p \in Procs : Finish(p)
    \/ \E p \in Procs : Cancel(p)
    \/ AddDomain

\* Concurrent GetRecords callers under these conditions.
SpecFair == Init /\ [][NextFair]_vars /\ Fairness

(***************************************************************************)
(* Vocabulary of the properties                                            *)
(***************************************************************************)
LoopEndpoints == {"Record.Create", "Record.Modify", "Record.Remove"}

\* The calls of the running operation that were made for the input at i.
CallsFor(p, i) ==
    {j \in 1..Len(issued[p]) : issued[p][j].ep \in LoopEndpoints /\ issued[p][j].idx = i}

LoopCalls(p) == {j \in 1..Len(issued[p]) : issued[p][j].ep \in LoopEndpoints}

\* A response that makes a provider call succeed, as the provider's protocol
\* defines it: HTTP 200, a JSON body with status code "1", and a payload of
\* the endpoint's shape where the endpoint has one.
Succeeds(call) ==
    /\ ~call.resp.neterr
    /\ call.resp.status = 200
    /\ call.resp.json
    /\ call.resp.code = "1"
    /\ (call.ep # "Record.Remove" => call.resp.payloadOK)

Pending(call) == call.resp = NoResponse

\* The operation has fetched the zone's records.
Listed(p) ==
    \E j \in 1..Len(issued[p]) :
        issued[p][j].ep = "Record.List" /\ Succeeds(issued[p][j])

\* The existing records with the name and type of the input at i, and those
\* with its name, type and data.
SameNameType(p, i) ==
    LET rr == RR(op[p].records[i])
    IN  {k \in 1..Len(op[p].existing) :
            LET e == RR(convertToLibDNSRecord(op[p].existing[k], op[p].zone))
            IN  e.Name = rr.Name /\ e.Type = rr.Type}

SameNameTypeData(p, i) ==
    LET rr == RR(op[p].records[i])
    IN  {k \in SameNameType(p, i) :
            RR(convertToLibDNSRecord(op[p].existing[k], op[p].zone)).Data = rr.Data}

\* The loop has dealt with the input at i: it is past it, or the operation
\* has returned without an error.
Dealt(p, i) == i < op[p].idx \/ (pc[p] = "done" /\ op[p].err = Nil)

(***************************************************************************)
(* C1.  The domain cache is populated at most once per client: once a      *)
(* Domain.List call of a client has succeeded, the client issues no other  *)
(* Domain.List call and its cached domain list never changes.              *)
(***************************************************************************)
C1_PopulatedOnce ==
    [][\A c \in Procs :
          dlOK[c] > 0 => /\ dlCalls'[c] = dlCalls[c]
                         /\ domainList'[c] = domainList[c]]_vars

(***************************************************************************)
(* C2.  SetRecords: an input with no existing record of its name and type  *)
(* gets no Record.Modify and at most one call, a Record.Create; exactly    *)
(* one once the loop has dealt with it.                                    *)
(***************************************************************************)
C2_SetCreatesWhenNoMatch ==
    \A p \in Procs :
        (op[p].kind = "Set" /\ Listed(p)) =>
            \A i \in 1..Len(op[p].records) :
                SameNameType(p, i) = {} =>
                    /\ \A j \in CallsFor(p, i) : issued[p][j].ep = "Record.Create"
                    /\ Cardinality(CallsFor(p, i)) <= 1
                    /\ Dealt(p, i) => Cardinality(CallsFor(p, i)) = 1

C2_Witness ==
    \E p \in Procs :
        /\ op[p].kind = "Set" /\ Listed(p) /\ pc[p] = "done" /\ op[p].err = Nil
        /\ op[p].existing # <<>>
        /\ \E i \in 1..Len(op[p].records) :
              /\ SameNameType(p, i) = {}
              /\ \E j \in CallsFor(p, i) : issued[p][j].ep = "Record.Create"

(***************************************************************************)
(* C3.  SetRecords: an input with existing records of its name and type    *)
(* gets no Record.Create and at most one call, a Record.Modify carrying    *)
(* the id of the first such record in the fetched order; exactly one once  *)
(* the loop has dealt with it.                                             *)
(***************************************************************************)
C3_SetModifiesFirstMatch ==
    \A p \in Procs :
        (op[p].kind = "Set" /\ Listed(p)) =>
            \A i \in 1..Len(op[p].records) :
                SameNameType(p, i) # {} =>
                    /\ \A j \in CallsFor(p, i) :
                          /\ issued[p][j].ep = "Record.Modify"
                          /\ issued[p][j].record_id =
                                op[p].existing[First(SameNameType(p, i))].ID
                    /\ Cardinality(CallsFor(p, i)) <= 1
                    /\ Dealt(p, i) => Cardinality(CallsFor(p, i)) = 1

C3_Witness ==
    \E p \in Procs :
        /\ op[p].kind = "Set" /\ Listed(p) /\ pc[p] = "done" /\ op[p].err = Nil
        /\ \E i \in 1..Len(op[p].records) :
              /\ Cardinality(SameNameType(p, i)) > 1
              /\ \E j \in CallsFor(p, i) :
                    /\ issued[p][j].ep = "Record.Modify"
                    /\ issued[p][j].record_id = "2"

(***************************************************************************)
(* C4.  DeleteRecords: at the first input with no existing record of its   *)
(* name, type and data the operation fails with RecordNotFound; no         *)
(* Record.Remove is issued for that input or a later one, and the records  *)
(* returned are the inputs before it.                                      *)
(***************************************************************************)
C4_DeleteNotFound ==
    \A p \in Procs :
        (op[p].kind = "Delete" /\ Listed(p)) =>
            \A i \in 1..Len(op[p].records) :
                SameNameTypeData(p, i) = {} =>
                    /\ \A j \in LoopCalls(p) : issued[p][j].idx < i
                    /\ op[p].idx <= i
                    /\ (pc[p] = "done" /\ op[p].idx = i) =>
                          /\ op[p].err = Err("RecordNotFound", "", "")
                          /\ op[p].results = SubSeq(op[p].records, 1, i - 1)

C4_Witness ==
    \E p \in Procs :
        /\ op[p].kind = "Delete" /\ Listed(p) /\ pc[p] = "done"
        /\ Len(op[p].records) = 2
        /\ op[p].idx = 2 /\ SameNameTypeData(p, 2) = {}
        /\ SameNameType(p, 2) # {}
        /\ op[p].err.kind = "RecordNotFound"
        /\ Len(op[p].results) = 1

\* What the loop appends for the input at j, from the response to its call.
ExpectedResult(p, j) ==
    IF op[p].kind = "Delete" THEN op[p].records[j]
    ELSE LET c == issued[p][CHOOSE k \in CallsFor(p, j) : TRUE]
         IN  convertToLibDNSRecord(c.ret, op[p].zone)

AllowedEndpoints(kind) ==
    CASE kind = "Append" -> {"Record.Create"}
      [] kind = "Set"    -> {"Record.Create", "Record.Modify"}
      [] kind = "Delete" -> {"Record.Remove"}
      [] OTHER           -> {}

LoopCallFailed(p) ==
    /\ issued[p] # <<>>
    /\ issued[p][Len(issued[p])].ep \in LoopEndpoints
    /\ ~Pending(issued[p][Len(issued[p])])
    /\ ~Succeeds(issued[p][Len(issued[p])])

(***************************************************************************)
(* C5.  AppendRecords, SetRecords, DeleteRecords: when the provider call   *)
(* for the input at i fails, the operation returns an error with the       *)
(* results of the inputs before i, in order; the failed call is the last   *)
(* one issued (no retry, no call for a later input), there is one call per *)
(* input up to i, and none of them undoes an earlier one.                  *)
(***************************************************************************)
C5_StopOnFirstFailure ==
    \A p \in Procs :
        \* a failed call is never followed by another call
        /\ \A j \in 1..Len(issued[p]) :
              (~Pending(issued[p][j]) /\ ~Succeeds(issued[p][j])) => j = Len(issued[p])
        /\ \A j \in LoopCalls(p) : issued[p][j].ep \in AllowedEndpoints(op[p].kind)
        /\ LoopCallFailed(p) =>
              LET i == issued[p][Len(issued[p])].idx
              IN  /\ pc[p] = "done"
                  /\ op[p].err # Nil
                  /\ op[p].idx = i
                  /\ Len(op[p].results) = i - 1
                  /\ \A j \in 1..i : Cardinality(CallsFor(p, j)) = 1
                  /\ Cardinality(LoopCalls(p)) = i
                  /\ \A j \in 1..(i - 1) : op[p].results[j] = ExpectedResult(p, j)

C5_Witness ==
    \E p \in Procs :
        /\ LoopCallFailed(p)
        /\ op[p].kind = "Set"
        /\ issued[p][Len(issued[p])].idx = 2
        /\ Len(op[p].results) = 1

\* Where a goroutine waits for the response to a call.
Waiting == {"dlwait", "rlwait", "mwait"}

(***************************************************************************)
(* C6.  A response whose envelope carries a status code other than "1"     *)
(* makes the call fail, with a ProviderAPIError of that code and message   *)
(* when the HTTP status let the envelope be read; nothing of its payload   *)
(* is used: the cache, the fetched records and the results stay as they    *)
(* were.                                                                   *)
(***************************************************************************)
C6_StatusCodeBeforePayload ==
    [][\A p \in Procs :
          (pc[p] \in Waiting /\ pc'[p] \notin Waiting) =>
              LET resp == issued'[p][Len(issued'[p])].resp
              IN  (~resp.neterr /\ resp.json /\ resp.code # "1") =>
                      /\ pc'[p] = "done"
                      /\ op'[p].err # Nil
                      /\ resp.status = 200 =>
                            op'[p].err = Err("API", resp.code, resp.message)
                      /\ domainList' = domainList
                      /\ dlOK' = dlOK
                      /\ op'[p].results = op[p].results
                      /\ op'[p].existing = op[p].existing
                      /\ op'[p].domainID = op[p].domainID]_vars

C6_Witness ==
    \E p \in Procs :
        /\ pc[p] = "done"
        /\ issued[p] # <<>>
        /\ issued[p][Len(issued[p])].ep = "Domain.List"
        /\ issued[p][Len(issued[p])].resp = R_api
        /\ op[p].err = Err("API", "-1", "denied")
        /\ remoteDomains > 1
        /\ domainList[op[p].client] = <<>>

(***************************************************************************)
(* C7.  Double-checked locking, per client: Domain.List is in flight only  *)
(* under the client's write lock and with the cache empty; the write lock  *)
(* excludes readers and other writers; once the cache is non-empty no      *)
(* Domain.List call is issued; the cache changes only under the write      *)
(* lock, with no reader holding the read lock.                             *)
(***************************************************************************)
C7_DoubleCheckedLocking ==
    /\ [](\A p \in Procs :
            /\ pc[p] = "dlwait" =>
                  /\ writer[op[p].client] = p
                  /\ ~cacheFilled(op[p].client)
            /\ pc[p] = "rcheck" => p \in readers[op[p].client]
            /\ \A c \in Procs : writer[c] # 0 => readers[c] = {})
    /\ [][\A c \in Procs :
            /\ cacheFilled(c) => dlCalls'[c] = dlCalls[c]
            /\ domainList'[c] # domainList[c] =>
                  /\ writer[c] # 0
                  /\ readers[c] = {}
                  /\ pc[writer[c]] = "dlwait"]_vars

\* A caller that missed under the read lock holds the write lock and finds
\* the cache filled by the caller before it.
C7_Witness ==
    \E p \in Procs :
        /\ pc[p] = "wcheck"
        /\ cacheFilled(op[p].client)
        /\ dlCalls[op[p].client] = 1

(***************************************************************************)
(* C8.  Concurrent operations on one Provider object use one and the same  *)
(* Client, hence one cache and one lock.                                   *)
(***************************************************************************)
C8_OneClient ==
    \A p, q \in Procs :
        (op[p].client # 0 /\ op[q].client # 0) => op[p].client = op[q].client

(***************************************************************************)
(* C9.  Once an operation's context is cancelled the operation issues no   *)
(* provider call: at the next call it would make it returns an error and   *)
(* the results it has so far; the calls it made before are not undone.     *)
(***************************************************************************)
C9_CancelStopsCalls ==
    [][\A p \in Procs :
          op[p].cancelled =>
              /\ Len(issued'[p]) <= Len(issued[p])
              /\ (pc[p] \in {"list", "loop"} /\ pc'[p] # pc[p]) =>
                    /\ pc'[p] = "done"
                    /\ op'[p].results = op[p].results
                    /\ (pc[p] = "loop" /\ op[p].idx <= Len(op[p].records)) =>
                          op'[p].err.kind \in {"request", "RecordNotFound"}
              /\ \A j \in LoopCalls(p) :
                    issued[p][j].ep \in AllowedEndpoints(op[p].kind)]_vars

C9_Witness ==
    \E p \in Procs :
        /\ pc[p] = "done" /\ op[p].cancelled
        /\ op[p].kind = "Append"
        /\ op[p].err = Err("request", "", "")
        /\ Len(op[p].results) = 1
        /\ Len(op[p].records) = 2
        /\ Cardinality(LoopCalls(p)) = 1
        /\ Succeeds(issued[p][Len(issued[p])])

(***************************************************************************)
(* The translator on its own: a uniform record is converted to the         *)
(* provider's form and back.                                               *)
(***************************************************************************)
ConvZones == {Z_e, Z_eDot}

ConvNames ==
    { N_apex, N_w,
      <<"w", ".", "e">>,                \* in the zone, not dot-terminated
      <<"W", ".", "E", ".">>,           \* another letter case
      <<"@", ".", "e", ".">>,           \* the label @ under the apex
      <<"w", ".", ".", "e", ".">>,      \* an empty label
      <<"w", ".", "x", ".">> }          \* outside the zone

\* Durations: zero, whole seconds, and one and a half seconds.
ConvTTLs == {0, Second, Second + (Second \div 2), 600 * Second}

T_NS  == <<"N", "S">>
T_mx  == <<"m", "x">>
T_txt == <<"t", "x", "t">>

ConvData == { <<"n">>, IPv4Text, IPv6Long, <<"1", "0", " ", "m">> }

ConvVariants(name, ttl) ==
    { [kind |-> "Address", Name |-> name, IP |-> ip, TTL |-> ttl] : ip \in {Addr4, Addr6} }
    \cup { [kind |-> "TXT", Name |-> name, Text |-> t, TTL |-> ttl] : t \in {<<>>, <<"x">>} }
    \cup { [kind |-> "CNAME", Name |-> name, Target |-> N_w, TTL |-> ttl] }
    \cup { [kind |-> "MX", Name |-> name, Target |-> <<"m">>, Preference |-> n,
            TTL |-> ttl] : n \in {0, 10, 65535} }
    \cup { [kind |-> "RR", Name |-> name, Type |-> t, Data |-> d, TTL |-> ttl] :
            t \in {T_NS, T_A, T_AAAA, T_TXT, T_txt, T_MX, T_mx}, d \in ConvData }

ConvInputs == UNION { ConvVariants(name, ttl) : name \in ConvNames, ttl \in ConvTTLs }

InitConv ==
    /\ callers = {}
    /\ InitMachine
    /\ \E r \in ConvInputs, zone \in ConvZones :
          conv = [phase |-> "uniform", r |-> r, zone |-> zone,
                  rec |-> NoRec, back |-> r]

\* toProvider
ToProvider ==
    /\ conv.phase = "uniform"
    /\ conv' = [conv EXCEPT !.phase = "provider",
                            !.rec = convertFromLibDNSRecord(conv.r, conv.zone)]
    /\ UNCHANGED <<callers, providerClient, domainList, readers, writer,
                   remoteDomains, pc, op, issued, dlCalls, dlOK, nOps>>

\* toUniform of what toProvider gave
ToUniform ==
    /\ conv.phase = "provider"
    /\ conv' = [conv EXCEPT !.phase = "back",
                            !.back = convertToLibDNSRecord(conv.rec, conv.zone)]
    /\ UNCHANGED <<callers, providerClient, domainList, readers, writer,
                   remoteDomains, pc, op, issued, dlCalls, dlOK, nOps>>

NextConv == ToProvider \/ ToUniform

SpecConv == InitConv /\ [][NextConv]_vars

(***************************************************************************)
(* Round trip of the translator                                            *)
(***************************************************************************)
\* The name is fully qualified, has no empty label, and is the zone's apex or
\* ends in .<zone>
InZone(name, zone) ==
    /\ HasSuffix(name, Dot)
    /\ name[1] # "."
    /\ \A i \in 1..(Len(name) - 1) : ~(name[i] = "." /\ name[i + 1] = ".")
    /\ \/ TrimSuffix(name, Dot) = TrimSuffix(zone, Dot)
       \/ HasSuffix(TrimSuffix(name, Dot), Dot \o TrimSuffix(zone, Dot))

RoundTrips == conv.phase = "back" => RR(conv.back) = RR(conv.r)

\* C10, as the specification words it: every uniform record of every
\* variant whose name lies in the zone comes back from toProvider and
\* toUniform with the canonical projection {name, type, data, TTL} it had.
C10_RoundTripAll == InZone(conv.r.Name, conv.zone) => RoundTrips

TypedTags == {T_A, T_AAAA, T_TXT, T_CNAME, T_MX}

\* The part of the name in front of the zone is the label @.
RelativeIsAt(name, zone) ==
    TrimSuffix(name, Dot) = At \o Dot \o TrimSuffix(zone, Dot)

\* C10, within the translator's domain: the round trip keeps the canonical projection of every
\* in-zone record whose TTL is a whole number of seconds, whose name is not
\* @.<zone>., and which is an address, text, canonical-name or mail-exchange
\* record, or a generic record whose type tag is, in upper case, none of A,
\* AAAA, TXT, CNAME, MX.
C10_RoundTrip ==
    ( /\ InZone(conv.r.Name, conv.zone)
      /\ conv.r.TTL % Second = 0
      /\ ~RelativeIsAt(conv.r.Name, conv.zone)
      /\ conv.r.kind = "RR" => ToUpper(conv.r.Type) \notin TypedTags )
    => RoundTrips

C10_Witness ==
    /\ conv.phase = "back"
    /\ conv.r.kind = "MX" /\ conv.r.Preference = 10
    /\ conv.r.Name = N_w /\ conv.zone = Z_e
    /\ conv.r.TTL = 600 * Second
    /\ conv.rec.Name = <<"w">>
    /\ conv.rec.MX = <<"1", "0">>
    /\ conv.rec.TTL = TTL600
    /\ RR(conv.back) = RR(conv.r)

(***************************************************************************)
(* The name functions on their own: a name is made relative and then       *)
(* absolute again, or absolute and then relative again.                    *)
(***************************************************************************)
\* Fully-qualified names a caller passes.
AbsoluteNames ==
    ConvNames \cup
    { <<"a", ".", "w", ".", "e", ".">>,     \* two labels under the apex
      <<"e", ".", "e", ".">>,               \* the zone's own label under the apex
      <<"w", "e", ".">> }                   \* ends in the zone's letters only

\* Relative names the provider holds in a record's name field.
RelativeNames ==
    { At, <<"w">>, <<"a", ".", "w">>, <<"e">>, <<"w", ".", "e">>, <<"W">>,
      <<"*">>, <<"*", ".", "w">> }

InitName ==
    /\ callers = {}
    /\ InitMachine
    /\ \E zone \in ConvZones :
          \/ \E n \in AbsoluteNames :
                conv = [phase |-> "name", from |-> "absolute", n |-> n,
                        zone |-> zone, step |-> 0, mid |-> <<>>, out |-> <<>>]
          \/ \E m \in RelativeNames :
                conv = [phase |-> "name", from |-> "relative", n |-> m,
                        zone |-> zone, step |-> 0, mid |-> <<>>, out |-> <<>>]

\* extractRecordName applied to the input, or to what makeAbsoluteName gave.
Relativize ==
    /\ conv.phase = "name"
    /\ \/ /\ conv.from = "absolute" /\ conv.step = 0
          /\ conv' = [conv EXCEPT !.step = 1,
                                  !.mid = extractRecordName(conv.n, conv.zone)]
       \/ /\ conv.from = "relative" /\ conv.step = 1
          /\ conv' = [conv EXCEPT !.step = 2,
                                  !.out = extractRecordName(conv.mid, conv.zone)]
    /\ UNCHANGED <<callers, providerClient, domainList, readers, writer,
                   remoteDomains, pc, op, issued, dlCalls, dlOK, nOps>>

\* makeAbsoluteName applied to the input, or to what extractRecordName gave.
Absolutize ==
    /\ conv.phase = "name"
    /\ \/ /\ conv.from = "relative" /\ conv.step = 0
          /\ conv' = [conv EXCEPT !.step = 1,
                                  !.mid = makeAbsoluteName(conv.n, conv.zone)]
       \/ /\ conv.from = "absolute" /\ conv.step = 1
          /\ conv' = [conv EXCEPT !.step = 2,
                                  !.out = makeAbsoluteName(conv.mid, conv.zone)]
    /\ UNCHANGED <<callers, providerClient, domainList, readers, writer,
                   remoteDomains, pc, op, issued, dlCalls, dlOK, nOps>>

NextName == Relativize \/ Absolutize

SpecName == InitName /\ [][NextName]_vars

(***************************************************************************)
(* C11.  extractRecordName and makeAbsoluteName against one zone are       *)
(* mutual inverses: making a name relative and absolute again gives the    *)
(* name back for every dot-terminated name (in the zone, the apex, or any  *)
(* other absolute name), and making a relative name of the provider        *)
(* absolute and relative again gives that name back.                       *)
(***************************************************************************)
C11_MutualInverses ==
    (conv.phase = "name" /\ conv.step = 2) =>
        /\ (conv.from = "absolute" /\ HasSuffix(conv.n, Dot)) => conv.out = conv.n
        /\ conv.from = "relative" => conv.out = conv.n

\* The response with which the goroutine p has just left its wait.
LastResponse(p) == issued[p][Len(issued[p])].resp

\* The errors makeRequest returns.
RequestErrors == {"request", "HTTP", "parse", "API"}

\* A 2xx status
Is2xx(status) == status \in 200..299

CallsTo(p, ep) == {j \in 1..Len(issued[p]) : issued[p][j].ep = ep}

(***************************************************************************)
(* C13.  Every Record.Create call carries a ttl parameter: 600 when the    *)
(* uniform record it is made for has no TTL set (zero), and the record's   *)
(* TTL in whole seconds otherwise.                                         *)
(***************************************************************************)
C13_DefaultTTL ==
    \A p \in Procs :
        \A j \in CallsTo(p, "Record.Create") :
            LET libRec == op[p].records[issued[p][j].idx]
            IN  /\ issued[p][j].ttl # <<>>
                /\ issued[p][j].ttl = IF libRec.TTL = 0 THEN TTL600
                                      ELSE Itoa(WholeSeconds(libRec.TTL))

(***************************************************************************)
(* toUniform on its own: a record as the provider sends it is converted.   *)
(***************************************************************************)
\* What the provider's mx field can hold.
MXFields ==
    { <<>>, <<"0">>, <<"1", "0">>, <<"6", "5", "5", "3", "5">>,
      <<"6", "5", "5", "3", "6">>, <<"6", "5", "5", "3", "7">>,
      <<"-", "1">>, <<"+", "5">>, <<"x">>, <<"1", "x">> }

WireRecords ==
    { ProviderRecord("7", name, type, value, ttl, mx) :
        name \in {At, <<"w">>}, type \in {T_MX, T_mx, T_A, T_TXT, T_NS},
        value \in {<<"m">>, IPv4Text, NotAnIP}, ttl \in {TTL600, <<>>},
        mx \in MXFields }

InitWire ==
    /\ callers = {}
    /\ InitMachine
    /\ \E rec \in WireRecords, zone \in ConvZones :
          conv = [phase |-> "provider", r |-> GenericRR(rec, <<>>, 0),
                  zone |-> zone, rec |-> rec, back |-> GenericRR(rec, <<>>, 0)]

NextWire == ToUniform

SpecWire == InitWire /\ [][NextWire]_vars

\* A decimal unsigned integer of the 16-bit range.
IsUint16Text(s) ==
    /\ s # <<>>
    /\ \A i \in 1..Len(s) : IsDigit(s[i])
    /\ DigitsVal(s) <= 65535

(***************************************************************************)
(* C14.  toUniform of an MX record: the preference is the value of the mx  *)
(* field when that is a decimal unsigned integer of the 16-bit range, and  *)
(* 0 for every other field (empty, not a number, negative, above 65535).   *)
(***************************************************************************)
C14_PreferenceInRange ==
    (conv.phase = "back" /\ ToUpper(conv.rec.Type) = T_MX) =>
        /\ conv.back.kind = "MX"
        /\ conv.back.Preference = IF IsUint16Text(conv.rec.MX)
                                  THEN DigitsVal(conv.rec.MX) ELSE 0

\* The operation has returned without an error.
Returned(p) == pc[p] = "done" /\ op[p].err = Nil /\ op[p].kind \in Kinds

(***************************************************************************)
(* C15, as the specification words it: every GetRecords, AppendRecords,    *)
(* SetRecords and DeleteRecords call fetches the zone's records (issues    *)
(* Record.List) during that call, and the records an operation works on    *)
(* are those it fetched itself.                                            *)
(***************************************************************************)
C15_EveryCallFetches ==
    \A p \in Procs :
        /\ Returned(p) => CallsTo(p, "Record.List") # {}
        /\ op[p].existing # <<>> => Listed(p)

(***************************************************************************)
(* C15, as the code has it: every GetRecords, SetRecords and DeleteRecords *)
(* call that returns without an error has issued Record.List exactly once, *)
(* before any of its mutations, and the records it matches against or      *)
(* returns are those of that response; AppendRecords issues no Record.List *)
(* and has no fetched records; nothing fetched is kept for the next call.  *)
(***************************************************************************)
C15_FetchPerCall ==
    [](\A p \in Procs :
        /\ (Returned(p) /\ op[p].kind # "Append") =>
              Cardinality(CallsTo(p, "Record.List")) = 1
        /\ op[p].kind # "Append" =>
              \A j \in LoopCalls(p) :
                  \E k \in CallsTo(p, "Record.List") : k < j /\ Succeeds(issued[p][k])
        /\ op[p].kind = "Append" =>
              CallsTo(p, "Record.List") = {} /\ op[p].existing = <<>>
        /\ op[p].existing # <<>> => Listed(p)
        /\ pc[p] \in {"idle", "getClient", "list"} => op[p].existing = <<>>)

\* The second operation on a client whose domain cache is filled: it issues
\* no Domain.List, and it has fetched the records again.
C15_Witness ==
    \E p \in Procs :
        /\ Returned(p) /\ op[p].kind = "Set"
        /\ nOps = 2
        /\ dlCalls[op[p].client] = 1
        /\ CallsTo(p, "Domain.List") = {}
        /\ Cardinality(CallsTo(p, "Record.List")) = 1
        /\ op[p].existing # <<>>

\* A zone name with one trailing dot taken off.
OneDotLess(zone) ==
    IF zone # <<>> /\ zone[Len(zone)] = "." THEN SubSeq(zone, 1, Len(zone) - 1)
    ELSE zone

\* The cached domains whose name is the zone's, letter for letter.
NamedBy(cache, zone) == {i \in 1..Len(cache) : cache[i].Name = OneDotLess(zone)}

\* Past the resolve, with a domain id in hand.
PastResolve == {"list", "rlwait", "loop", "mwait"}

(***************************************************************************)
(* C16.  The resolve of a zone succeeds, with the identifier of the domain *)
(* so named, exactly when the zone name less one trailing dot equals the   *)
(* name of a cached domain, and fails with DomainNotFound otherwise; an    *)
(* operation whose resolve failed returns no records and has issued no     *)
(* Record.List, Record.Create, Record.Modify or Record.Remove.             *)
(***************************************************************************)
C16_ResolveExact ==
    /\ [](\A p \in Procs :
            LET cache == domainList[op[p].client]
            IN  /\ pc[p] \in PastResolve =>
                      /\ NamedBy(cache, op[p].zone) # {}
                      /\ \A i \in NamedBy(cache, op[p].zone) :
                            op[p].domainID = cache[i].ID
                /\ op[p].err.kind = "DomainNotFound" =>
                      NamedBy(cache, op[p].zone) = {}
                /\ (pc[p] = "done" /\ op[p].domainID = "") =>
                      /\ op[p].err # Nil
                      /\ op[p].results = <<>>
                      /\ \A j \in 1..Len(issued[p]) : issued[p][j].ep = "Domain.List")
    /\ [][\A p \in Procs :
            \* getDomains has returned a list, cached or fetched
            ( /\ pc[p] \in {"rcheck", "wcheck", "dlwait"}
              /\ pc'[p] \in PastResolve \cup {"done"}
              /\ op'[p].err.kind \in {"nil", "DomainNotFound"} ) =>
                LET cache == domainList'[op[p].client]
                IN  IF NamedBy(cache, op[p].zone) # {}
                    THEN pc'[p] \in PastResolve /\ op'[p].err = Nil
                    ELSE pc'[p] = "done" /\ op'[p].err = Err("DomainNotFound", "", "")]_vars

\* A zone that differs from a cached domain's name in letter case only is not
\* found, and nothing has been asked of the provider but the domain list.
C16_Witness ==
    \E p \in Procs :
        /\ pc[p] = "done"
        /\ op[p].zone = Z_E
        /\ op[p].kind = "Delete"
        /\ domainList[op[p].client] = <<Domain1, Domain2>>
        /\ op[p].err = Err("DomainNotFound", "", "")
        /\ op[p].results = <<>>
        /\ Len(issued[p]) = 1

\* The provider record is of an address type and its value is no IP literal.
BadAddress(rec) == ToUpper(rec.Type) \in {T_A, T_AAAA} /\ ParseAddr(rec.Value).err

\* What GetRecords owes for the i-th record of the response: its data and
\* its name under the zone; the raw type and value in a generic record when
\* the address does not parse; TTL zero when the ttl field does not parse.
Translated(p, i) ==
    LET rec == op[p].existing[i]
        out == op[p].results[i]
    IN  /\ RR(out).Name = rec.Name \o Dot \o OneDotLess(op[p].zone) \o Dot
        /\ BadAddress(rec) =>
              out.kind = "RR" /\ out.Type = rec.Type /\ out.Data = rec.Value
        /\ ~BadAddress(rec) => out.kind # "RR" /\ RR(out).Data = rec.Value
        /\ RR(out).TTL = IF ParseInt(rec.TTL).err THEN 0
                         ELSE ParseInt(rec.TTL).val * Second

\* GetRecords has got the zone's records from the provider.
GotRecords(p) == op[p].kind = "Get" /\ Listed(p)

Rank(ep) ==
    CASE ep = "Domain.List" -> 0
      [] ep = "Record.List" -> 1
      [] OTHER              -> 2

(***************************************************************************)
(* C18.  Inside one public operation the provider calls are issued one at  *)
(* a time, in the order Domain.List (only with the cache empty), then      *)
(* Record.List (once, and only in GetRecords, SetRecords, DeleteRecords),  *)
(* then one mutate call per input in input order; no list call follows a   *)
(* mutate call, and the call for an input is issued only when the call for *)
(* the input before it has returned.  The Record.Create of AppendRecords   *)
(* for an input named <label>.<zone>. carries the relative name <label>.   *)
(***************************************************************************)
C18_CallOrder ==
    /\ [](\A p \in Procs :
            LET log == issued[p]
            IN  \* one at a time: only the last call can be without its response
                /\ \A j \in 1..(Len(log) - 1) : ~Pending(log[j])
                /\ pc[p] \in Waiting <=> (log # <<>> /\ Pending(log[Len(log)]))
                \* resolve, then list, then mutate
                /\ \A j, k \in 1..Len(log) : j < k => Rank(log[j].ep) <= Rank(log[k].ep)
                /\ Cardinality(CallsTo(p, "Domain.List")) <= 1
                /\ Cardinality(CallsTo(p, "Record.List")) <= 1
                /\ CallsTo(p, "Record.List") # {} => op[p].kind \in {"Get", "Set", "Delete"}
                /\ (LoopCalls(p) # {} /\ op[p].kind \in {"Set", "Delete"}) =>
                      CallsTo(p, "Record.List") # {}
                \* the m-th mutate call is the call for the m-th input
                /\ \A j \in LoopCalls(p) :
                      log[j].idx = Cardinality({k \in LoopCalls(p) : k <= j})
                \* the relative name of a create of AppendRecords
                /\ op[p].kind = "Append" =>
                      \A j \in LoopCalls(p) :
                          /\ log[j].ep = "Record.Create"
                          /\ op[p].records[log[j].idx].Name =
                                log[j].sub_domain \o Dot \o OneDotLess(op[p].zone) \o Dot)
    /\ [][\A p \in Procs :
            Len(issued'[p]) > Len(issued[p]) =>
                /\ Len(issued'[p]) = Len(issued[p]) + 1
                /\ Len(issued[p]) > 0 => ~Pending(issued[p][Len(issued[p])])
                /\ issued'[p][Len(issued'[p])].ep = "Domain.List" =>
                      ~cacheFilled(op[p].client)]_vars

\* SetRecords of two inputs on a fresh client: Domain.List, Record.List and
\* two mutate calls, in that order.
C18_Witness ==
    \E p \in Procs :
        /\ Returned(p) /\ op[p].kind = "Set"
        /\ Len(issued[p]) = 4
        /\ issued[p][1].ep = "Domain.List"
        /\ issued[p][2].ep = "Record.List"
        /\ issued[p][3].ep = "Record.Modify" /\ issued[p][3].idx = 1
        /\ issued[p][4].ep = "Record.Create" /\ issued[p][4].idx = 2
        /\ issued[p][3].sub_domain = <<"w">>

\* The Record.Remove calls of the running operation that succeeded.
Removed(p) ==
    {j \in LoopCalls(p) : ~Pending(issued[p][j]) /\ Succeeds(issued[p][j])}

(***************************************************************************)
(* C19.  DeleteRecords: the call for an input is a Record.Remove with the  *)
(* id of the first record, in the fetched order, whose translated name,    *)
(* type and data equal the input's (letter case counts, the TTL does not); *)
(* no record that differs from the input in one of the three is removed;   *)
(* the records returned are the inputs whose removal succeeded, a prefix   *)
(* of the inputs.                                                          *)
(***************************************************************************)
C19_DeleteFirstExactMatch ==
    [](\A p \in Procs :
          (op[p].kind = "Delete" /\ Listed(p)) =>
              /\ \A j \in LoopCalls(p) :
                    LET i == issued[p][j].idx
                    IN  /\ issued[p][j].ep = "Record.Remove"
                        /\ SameNameTypeData(p, i) # {}
                        /\ issued[p][j].record_id =
                              op[p].existing[First(SameNameTypeData(p, i))].ID
                        /\ \A k \in 1..Len(op[p].existing) :
                              op[p].existing[k].ID = issued[p][j].record_id =>
                                  k \in SameNameTypeData(p, i)
              /\ op[p].results = SubSeq(op[p].records, 1, Cardinality(Removed(p))))

\* An input with no TTL has removed the first of two records of its name,
\* type and data, which stands second in the fetched list.
C19_Witness ==
    \E p \in Procs :
        /\ Returned(p) /\ op[p].kind = "Delete"
        /\ op[p].records = <<U_txX0>>
        /\ op[p].existing = <<E2, E4, E5, E1>>
        /\ Cardinality(SameNameTypeData(p, 1)) = 2
        /\ \E j \in LoopCalls(p) : issued[p][j].record_id = "4"
        /\ op[p].results = <<U_txX0>>

\* The inputs at i and k have the same name and type, and the same data too.
AlikeNameType(p, i, k) ==
    /\ RR(op[p].records[i]).Name = RR(op[p].records[k]).Name
    /\ RR(op[p].records[i]).Type = RR(op[p].records[k]).Type

AlikeNameTypeData(p, i, k) ==
    /\ AlikeNameType(p, i, k)
    /\ RR(op[p].records[i]).Data = RR(op[p].records[k]).Data

\* The one call made for the input at i.
TheCall(p, i) == issued[p][CHOOSE j \in CallsFor(p, i) : TRUE]

(***************************************************************************)
(* C20.  SetRecords and DeleteRecords match every input against the list   *)
(* fetched at the start of the call; the call's own mutations do not       *)
(* change that list.  In one DeleteRecords two inputs of the same name,    *)
(* type and data get a Record.Remove each, for one and the same record id; *)
(* in one SetRecords two inputs of the same name and type that no fetched  *)
(* record matches get a Record.Create each.                                *)
(***************************************************************************)
C20_SnapshotNotUpdated ==
    /\ [][\A p \in Procs :
            pc[p] \in {"loop", "mwait"} => op'[p].existing = op[p].existing]_vars
    /\ [](\A p \in Procs :
            Listed(p) =>
                \A i, k \in 1..Len(op[p].records) :
                    i < k =>
                        \* a removal for the first of the two: the second is
                        \* found as well, and it is the same record
                        /\ ( /\ op[p].kind = "Delete"
                             /\ AlikeNameTypeData(p, i, k)
                             /\ CallsFor(p, i) # {} ) =>
                                /\ ~(pc[p] = "done" /\ op[p].idx = k
                                        /\ op[p].err.kind = "RecordNotFound")
                                /\ \A j \in CallsFor(p, k) :
                                      /\ issued[p][j].ep = "Record.Remove"
                                      /\ issued[p][j].record_id = TheCall(p, i).record_id
                                /\ Dealt(p, k) => CallsFor(p, k) # {}
                        \* a creation for the first of the two: a creation
                        \* for the second, not a change of the record created
                        /\ ( /\ op[p].kind = "Set"
                             /\ AlikeNameType(p, i, k)
                             /\ CallsFor(p, i) # {}
                             /\ TheCall(p, i).ep = "Record.Create" ) =>
                                /\ \A j \in CallsFor(p, k) :
                                      issued[p][j].ep = "Record.Create"
                                /\ Dealt(p, k) => CallsFor(p, k) # {})

\* DeleteRecords of the same record twice has removed record 1 twice.
C20_Witness ==
    \E p \in Procs :
        /\ Returned(p) /\ op[p].kind = "Delete"
        /\ op[p].records = <<U_txX, U_txX>>
        /\ Cardinality(LoopCalls(p)) = 2
        /\ \A j \in LoopCalls(p) :
              issued[p][j].ep = "Record.Remove" /\ issued[p][j].record_id = "1"
        /\ op[p].results = <<U_txX, U_txX>>

\* The response to a Domain.List call makes getDomains fail: the request
\* failed, the status is not 200, the body is not the envelope, the envelope
\* carries an error code, or the domain list does not decode.
FailsDomainList(resp) ==
    \/ resp.neterr
    \/ resp.status # 200
    \/ ~resp.json
    \/ resp.code # successCode
    \/ ~resp.payloadOK

(***************************************************************************)
(* C21.  A resolve whose Domain.List call fails leaves the domain cache as *)
(* it was, empty, and returns the error with no domain id and no further   *)
(* call; the failure is not remembered: the next resolve on the client,    *)
(* finding the cache empty under the write lock, sends Domain.List again.  *)
(***************************************************************************)
C21_FailureNotCached ==
    /\ [][\A p \in Procs :
            (pc[p] = "dlwait" /\ pc'[p] # "dlwait") =>
                LET resp == issued'[p][Len(issued'[p])].resp
                    c    == op[p].client
                IN  FailsDomainList(resp) =>
                        /\ domainList[c] = <<>>
                        /\ domainList' = domainList
                        /\ dlOK' = dlOK
                        /\ pc'[p] = "done"
                        /\ op'[p].err \notin {Nil, Err("DomainNotFound", "", "")}
                        /\ op'[p].domainID = ""
                        /\ op'[p].results = <<>>
                        /\ writer'[c] = 0]_vars
    /\ [][\A p \in Procs :
            \* a resolve after a failed Domain.List of the client
            ( /\ pc[p] = "wcheck" /\ pc'[p] # "wcheck"
              /\ dlCalls[op[p].client] > dlOK[op[p].client]
              /\ ~cacheFilled(op[p].client)
              /\ ~op[p].cancelled ) =>
                  /\ pc'[p] = "dlwait"
                  /\ dlCalls'[op[p].client] = dlCalls[op[p].client] + 1
                  /\ issued'[p][Len(issued'[p])].ep = "Domain.List"]_vars

\* The first Domain.List of the client failed, the second one, of the next
\* operation, has filled the cache and the zone is resolved.
C21_Witness ==
    \E p \in Procs :
        /\ nOps = 2
        /\ pc[p] \in PastResolve
        /\ dlCalls[op[p].client] = 2
        /\ dlOK[op[p].client] = 1
        /\ cacheFilled(op[p].client)
        /\ op[p].domainID = "10"
        /\ CallsTo(p, "Domain.List") # {}

\* The goroutine is inside getDomains.
InGetDomains(p) == pc[p] \in {"rlock", "rcheck", "wlock", "wcheck", "dlwait"}

(***************************************************************************)
(* C22.  getDomains holds the read lock only for its first test and the    *)
(* write lock only from Lock to its return: the read lock is given back    *)
(* before the write lock is asked for, and no lock is held once getDomains *)
(* has returned, whichever way it returned.  Hence, with every Domain.List *)
(* call returning, every goroutine that has entered getDomains leaves it.  *)
(***************************************************************************)
C22_LocksReleased ==
    /\ [](\A p \in Procs : \A c \in Procs :
            /\ p \in readers[c] => pc[p] = "rcheck" /\ op[p].client = c
            /\ writer[c] = p => pc[p] \in {"wcheck", "dlwait"} /\ op[p].client = c
            /\ (writer[c] # 0 => readers[c] = {}))
    /\ \A p \in Procs : InGetDomains(p) ~> ~InGetDomains(p)

\* One goroutine waits for a lock of the client while the other holds the
\* write lock with Domain.List in flight.
C22_Witness ==
    \E p, q \in Procs :
        /\ pc[q] = "dlwait"
        /\ pc[p] \in {"rlock", "wlock"}
        /\ op[p].client = op[q].client
        /\ writer[op[q].client] = q


=============================================================================
